---- MODULE Spec2Model ----
(***************************************************************************)
(* Graph lifecycle and synchronization layer of the Cartolex canvas:       *)
(*   - index.tsx   (mountCanvas and the CanvasAPI handle it returns),      *)
(*   - App.tsx     (the editor component: nodes/edges state, Save, Clear), *)
(*   - hooks/useAutoSave.ts (debounced auto-save),                         *)
(*   - store/workspaceStore.ts (save status),                              *)
(*   - api/serialization.ts (toBackendFormat / fromBackendFormat).         *)
(*                                                                         *)
(* JavaScript values are modelled as follows.  An object is a record; a    *)
(* property that is absent is a field that is not in the record's DOMAIN;  *)
(* the value undefined is the record Undefined; an array is a sequence.    *)
(* Time is counted in milliseconds and advances in steps of Quantum.       *)
(***************************************************************************)
EXTENDS Integers, Sequences, FiniteSets, Bags, TLC

(***************************************************************************)
(* Bounds of the model.                                                    *)
(***************************************************************************)
\* transport calls that may be awaiting their response at the same time
MaxInFlight == 2
\* successful mountCanvas calls (handles handed to the host page)
MaxMounts == 2
\* changes counted in one burst (the counter saturates)
MaxBurst == 3
\* nodes, and edges, of a graph handed to the format mapper on its own
MaxMapLen == 2

(***************************************************************************)
(* Program constants.                                                      *)
(***************************************************************************)
\* useAutoSave's default quiet period, in ms
debounceMs == 5000
\* fromBackendFormat scales Math.random() by this to place an unplaced node
RandomSpan == 500

\* the step of the clock, in ms: a fifth of the quiet period
Quantum == debounceMs \div 5

(***************************************************************************)
(* JavaScript values.                                                      *)
(***************************************************************************)
Undefined == [undefined |-> TRUE]

Has(obj, f) == f \in DOMAIN obj

\* {to: obj.from}, the property being absent when obj.from is undefined
Prop(to, obj, from) == IF Has(obj, from) THEN [k \in {to} |-> obj[from]] ELSE << >>

(***************************************************************************)
(* api/serialization.ts                                                    *)
(***************************************************************************)
\* node.type || 'untyped', edge.type || 'similar_to'
OrElse(obj, f, dflt) == IF Has(obj, f) /\ obj[f] # "" THEN obj[f] ELSE dflt

\* variant: the position is not copied
ToBackendNode_NoPosition(node) ==
    [node_id |-> node.id, type |-> OrElse(node, "type", "untyped")]
        @@ Prop("content", node, "data")

ToBackendNode(node) ==
    [node_id |-> node.id, type |-> OrElse(node, "type", "untyped")]
        @@ Prop("content", node, "data")
        @@ Prop("position", node, "position")

ToBackendEdge(edge) ==
    [edge_id |-> edge.id,
     source_node_id |-> edge.source,
     target_node_id |-> edge.target,
     type |-> OrElse(edge, "type", "similar_to")]

\* variant: an empty edge list is left out of the payload
toBackendFormat_OmitEmptyEdges(ns, es) ==
    IF Len(es) = 0
    THEN [nodes |-> [i \in 1..Len(ns) |-> ToBackendNode(ns[i])]]
    ELSE [nodes |-> [i \in 1..Len(ns) |-> ToBackendNode(ns[i])],
          edges |-> [i \in 1..Len(es) |-> ToBackendEdge(es[i])]]

toBackendFormat(ns, es) ==
    [nodes |-> [i \in 1..Len(ns) |-> ToBackendNode(ns[i])],
     edges |-> [i \in 1..Len(es) |-> ToBackendEdge(es[i])]]

\* variant: a coordinate beyond the canvas area
RandomCoords_Outside == {0, 2 * RandomSpan}

\* the values Math.random() * 500 is drawn from, one choice per coordinate
RandomCoords == {0, RandomSpan \div 2, RandomSpan - 1}

\* rndPos is the position synthesized for the node when it has none
FromBackendNode(node, rndPos) ==
    [id |-> node.node_id,
     type |-> "basic",
     position |-> IF Has(node, "position") THEN node.position ELSE rndPos,
     data |-> IF Has(node, "content") THEN node.content ELSE <<>>]

FromBackendEdge(edge) ==
    [id |-> edge.edge_id,
     source |-> edge.source_node_id,
     target |-> edge.target_node_id,
     type |-> "default"]

\* workspace.nodes || [], workspace.edges || []
OrEmpty(obj, f) == IF Has(obj, f) THEN obj[f] ELSE <<>>

fromBackendFormat(workspace, rnd) ==
    [nodes |-> [i \in 1..Len(OrEmpty(workspace, "nodes")) |->
                   FromBackendNode(OrEmpty(workspace, "nodes")[i], rnd[i])],
     edges |-> [i \in 1..Len(OrEmpty(workspace, "edges")) |->
                   FromBackendEdge(OrEmpty(workspace, "edges")[i])]]

(***************************************************************************)
(* Graphs of the model.                                                    *)
(***************************************************************************)
\* App.tsx: the single starter node
defaultNodes ==
    << [id |-> "1", type |-> "basic", position |-> [x |-> 250, y |-> 100],
        data |-> [label |-> "Start", content |-> "Begin your workflow here"]] >>

defaultEdges == << >>

EmptyGraph == [nodes |-> << >>, edges |-> << >>]

\* the node the user may drop on the canvas besides the starter node
NodeB ==
    [id |-> "2", type |-> "basic", position |-> [x |-> 0, y |-> 0],
     data |-> [label |-> "B"]]

\* nodes the rendering engine may add
NodePool == {NodeB}

\* connections the user may draw (onConnect)
Connections == {[source |-> "1", target |-> "2"]}

\* the persisted workspace the host may hand over as initial data
WorkspaceB ==
    [workspace_id |-> "w1", name |-> "ws",
     nodes |-> << [node_id |-> "2", type |-> "concept",
                   content |-> [label |-> "B"],
                   position |-> [x |-> 0, y |-> 0]] >>,
     edges |-> << >>]

\* a persisted workspace without nodes
WorkspaceEmpty == [workspace_id |-> "w1", name |-> "ws", nodes |-> << >>, edges |-> << >>]

\* graphs the host passes to mountCanvas, setGraph and <App initialGraph>
HostGraphs ==
    {EmptyGraph, [nodes |-> <<NodeB>>, edges |-> << >>], WorkspaceB, WorkspaceEmpty}

\* ids of the elements present in the host document
Containers == {"canvas-root"}

\* containerId arguments of mountCanvas
ContainerIds == Containers \cup {"no-such-element"}

\* workspace ids; "" stands for an absent workspaceId
WorkspaceIds == {"", "w1"}

\* outcomes of saveWorkspace (ApiResult): status 0 is a transport failure
ApiResults ==
    {[ok |-> TRUE],
     [ok |-> FALSE, error |-> "Network error", status |-> 0],
     [ok |-> FALSE, error |-> "Validation failed", status |-> 422]}

SeqIds(s) == {s[i].id : i \in 1..Len(s)}

(***************************************************************************)
(* App.tsx: resolveInitialGraph.  rnd supplies the random positions that   *)
(* fromBackendFormat may need.                                             *)
(***************************************************************************)
resolveInitialGraph(initialGraph, rnd) ==
    IF initialGraph = Undefined
    THEN [nodes |-> defaultNodes, edges |-> defaultEdges]
    ELSE IF Has(initialGraph, "workspace_id")
    THEN LET converted == fromBackendFormat(initialGraph, rnd)
         IN  [nodes |-> IF Len(converted.nodes) # 0 THEN converted.nodes
                        ELSE defaultNodes,
              edges |-> converted.edges]
    ELSE [nodes |-> IF Has(initialGraph, "nodes") /\ Len(initialGraph.nodes) # 0
                    THEN initialGraph.nodes ELSE defaultNodes,
          edges |-> IF Has(initialGraph, "edges") THEN initialGraph.edges
                    ELSE defaultEdges]

\* the positions fromBackendFormat may draw for n nodes
RandomPositions(n) ==
    [1..n -> {[x |-> cx, y |-> cy] : cx \in RandomCoords, cy \in RandomCoords}]

\* the random positions one call of fromBackendFormat may draw
RandomChoices(initialGraph) ==
    RandomPositions(IF initialGraph # Undefined /\ Has(initialGraph, "workspace_id")
                    THEN Len(OrEmpty(initialGraph, "nodes")) ELSE 0)

(***************************************************************************)
(* State.                                                                  *)
(***************************************************************************)
VARIABLES
    \* index.tsx, module level
    currentRoot,     \* 0 for null, else the id of the root created last
    currentGraph,    \* the snapshot getGraph returns
    handles,         \* the CanvasAPI objects returned so far: what each closes over
    mountedRoots,    \* ids of the roots created by mountCanvas and not unmounted
    hostRoot,        \* TRUE while a root of the host's own renders <App>
    \* App.tsx, the component instance (meaningful while a root is mounted)
    workspaceId,     \* prop; "" when absent
    onSave,          \* prop: who is called on Save
    nodes,           \* useNodesState
    edges,           \* useEdgesState
    \* useAutoSave.ts
    timerRef,        \* TRUE when timerRef.current holds a timer id
    isFirstRender,   \* isFirstRender.current
    timer,           \* the timeout scheduled by the hook, if any
    \* store/workspaceStore.ts (one store per page)
    storeWorkspaceId,
    saveStatus,
    lastSavedAt,
    lastError,
    \* the transport: the bag of saveWorkspace calls awaiting their response
    inflight,
    \* what the last step did, for stating the properties
    lastOp,          \* the operation
    sent,            \* payloads of the transport calls it started
    notified,        \* the host onSave invocations it made
    thrown,          \* the error it threw, "" for none
    sinceChange,     \* ms the timeout armed last has run since the change that armed it
    burst,           \* changes of the current burst, each within the quiet period of the one before
    fired,           \* debounce timers expired since the last graph change
    clicked,         \* TRUE when Save was clicked since the last graph change
    \* the format mapper applied on its own: its argument and its result
    mapper

appVars == <<workspaceId, onSave, nodes, edges>>
hookVars == <<timerRef, isFirstRender, timer>>
storeVars == <<storeWorkspaceId, saveStatus, lastSavedAt, lastError>>
indexVars == <<currentRoot, currentGraph, handles, mountedRoots>>
programVars == <<indexVars, hostRoot, appVars, hookVars, storeVars, inflight,
                 lastOp, sent, notified, thrown, sinceChange, burst, fired, clicked>>
vars == <<programVars, mapper>>
obsVars == <<sinceChange, burst, fired, clicked>>

NoTimer == [armed |-> FALSE]
NoSave == [kind |-> "none"]

appMounted == hostRoot \/ mountedRoots # {}

\* the timeout is due: its callback is the next thing the event loop runs
TimerDue == timer.armed /\ timer.left = 0

getGraph == currentGraph

\* the mapper is not being applied on its own
NoMapping == [op |-> "none"]

InitProgram ==
    /\ currentRoot = 0
    /\ currentGraph = EmptyGraph
    /\ handles = << >>
    /\ mountedRoots = {}
    /\ hostRoot = FALSE
    /\ workspaceId = ""
    /\ onSave = NoSave
    /\ nodes = << >>
    /\ edges = << >>
    /\ timerRef = FALSE
    /\ isFirstRender = TRUE
    /\ timer = NoTimer
    /\ storeWorkspaceId = ""
    /\ saveStatus = "saved"
    /\ lastSavedAt = "null"
    /\ lastError = "null"
    /\ inflight = EmptyBag
    /\ lastOp = [op |-> "init"]
    /\ sent = << >>
    /\ notified = << >>
    /\ thrown = ""
    /\ sinceChange = 0
    /\ burst = 0
    /\ fired = 0
    /\ clicked = FALSE

Init == InitProgram /\ mapper = NoMapping

Min(a, b) == IF a < b THEN a ELSE b

\* what one step did
Did(op, calls, callbacks, err) ==
    /\ lastOp' = op
    /\ sent' = calls
    /\ notified' = callbacks
    /\ thrown' = err

\* no graph change is being followed
ResetObs ==
    /\ sinceChange' = 0
    /\ burst' = 0
    /\ fired' = 0
    /\ clicked' = FALSE

(***************************************************************************)
(* store/workspaceStore.ts                                                 *)
(***************************************************************************)
\* variant: only a saved status is demoted
markUnsaved_OnlyFromSaved(status) == IF status = "saved" THEN "unsaved" ELSE status

\* variant: a saving status is demoted as well
markUnsaved_Always(status) == "unsaved"

markUnsaved(status) == IF status = "saving" THEN status ELSE "unsaved"

markSaved ==
    /\ saveStatus' = "saved"
    /\ lastSavedAt' = "Date"
    /\ lastError' = "null"

\* variant: the message is not stored
markError_NoMessage(error) ==
    /\ saveStatus' = "error"
    /\ UNCHANGED <<lastError, lastSavedAt>>

markError(error) ==
    /\ saveStatus' = "error"
    /\ lastError' = error
    /\ UNCHANGED lastSavedAt

(***************************************************************************)
(* hooks/useAutoSave.ts.  The hook's state is the record                   *)
(* [timerRef, isFirstRender, timer] together with the saveStatus of the    *)
(* store it drives; the operators return the state after.                  *)
(***************************************************************************)
\* variant: the first run of the effect is not told apart
FreshHook_NotFirst ==
    [timerRef |-> FALSE, isFirstRender |-> FALSE, timer |-> NoTimer,
     saveStatus |-> saveStatus]

FreshHook ==
    [timerRef |-> FALSE, isFirstRender |-> TRUE, timer |-> NoTimer,
     saveStatus |-> saveStatus]

Hook ==
    [timerRef |-> timerRef, isFirstRender |-> isFirstRender, timer |-> timer,
     saveStatus |-> saveStatus]

SetHook(h) ==
    /\ timerRef' = h.timerRef
    /\ isFirstRender' = h.isFirstRender
    /\ timer' = h.timer
    /\ saveStatus' = h.saveStatus

\* clearTimeout(timerRef.current) under if (timerRef.current)
ClearTimer(h) == IF h.timerRef THEN [h EXCEPT !.timer = NoTimer] ELSE h

\* variant: a change that finds a timeout pending leaves it running
useAutoSaveEffect_Throttle(h, wid, ns, es) ==
    IF h.isFirstRender THEN [h EXCEPT !.isFirstRender = FALSE]
    ELSE IF wid = "" THEN h
    ELSE IF h.timer.armed THEN [h EXCEPT !.saveStatus = markUnsaved(h.saveStatus)]
    ELSE [h EXCEPT
            !.saveStatus = markUnsaved(h.saveStatus),
            !.timerRef = TRUE,
            !.timer = [armed |-> TRUE, left |-> debounceMs,
                       workspaceId |-> wid, nodes |-> ns, edges |-> es]]

\* variant: the effect does not look at workspaceId
useAutoSaveEffect_Unguarded(h, wid, ns, es) ==
    IF h.isFirstRender THEN [h EXCEPT !.isFirstRender = FALSE]
    ELSE [ClearTimer(h) EXCEPT
            !.saveStatus = markUnsaved(h.saveStatus),
            !.timerRef = TRUE,
            !.timer = [armed |-> TRUE, left |-> debounceMs,
                       workspaceId |-> wid, nodes |-> ns, edges |-> es]]

\* variant: a change that finds a timeout pending re-arms it with the
\* graph that timeout was going to send
useAutoSaveEffect_KeepSnapshot(h, wid, ns, es) ==
    IF h.isFirstRender THEN [h EXCEPT !.isFirstRender = FALSE]
    ELSE IF wid = "" THEN h
    ELSE [ClearTimer(h) EXCEPT
            !.saveStatus = markUnsaved(h.saveStatus),
            !.timerRef = TRUE,
            !.timer = [armed |-> TRUE, left |-> debounceMs, workspaceId |-> wid,
                       nodes |-> IF h.timer.armed THEN h.timer.nodes ELSE ns,
                       edges |-> IF h.timer.armed THEN h.timer.edges ELSE es]]

useAutoSaveEffect(h, wid, ns, es) ==
    IF h.isFirstRender THEN [h EXCEPT !.isFirstRender = FALSE]
    ELSE IF wid = "" THEN h
    ELSE [ClearTimer(h) EXCEPT
            !.saveStatus = markUnsaved(h.saveStatus),
            !.timerRef = TRUE,
            !.timer = [armed |-> TRUE, left |-> debounceMs,
                       workspaceId |-> wid, nodes |-> ns, edges |-> es]]

\* variant: the cleanup leaves the timeout pending
effectCleanup_Keep(h) == h

\* the cleanup the effect returns, run when the component unmounts
effectCleanup(h) == ClearTimer(h)

\* doSave: TRUE when it goes past its first line
doSaveActs(wid) == wid # ""

\* doSave up to its await: the status (given the hook's state h before)
\* and the call it starts; by tells who called doSave
doSave(h, wid, ns, es, by) ==
    IF doSaveActs(wid)
    THEN /\ SetHook([h EXCEPT !.saveStatus = "saving"])
         /\ inflight' = inflight (+) SetToBag({[workspaceId |-> wid,
                                                payload |-> toBackendFormat(ns, es),
                                                by |-> by]})
    ELSE /\ SetHook(h)
         /\ UNCHANGED inflight

doSaveCalls(wid, ns, es) ==
    IF doSaveActs(wid) THEN <<toBackendFormat(ns, es)>> ELSE << >>

\* variant: the pending timeout is left running
saveNow_KeepTimer(h) == h

\* saveNow: the hook's state after it
saveNow(h) == [ClearTimer(h) EXCEPT !.timerRef = FALSE]

(***************************************************************************)
(* App.tsx: the component.                                                 *)
(***************************************************************************)
\* first render of <App workspaceId initialGraph onSave> and its effects
RenderFresh(wid, initialGraph, cb, rnd) ==
    LET initial == resolveInitialGraph(initialGraph, rnd)
    IN  /\ workspaceId' = wid
        /\ onSave' = cb
        /\ nodes' = initial.nodes
        /\ edges' = initial.edges
        /\ storeWorkspaceId' = IF wid # "" THEN wid ELSE storeWorkspaceId
        /\ SetHook(useAutoSaveEffect(FreshHook, wid, initial.nodes, initial.edges))
        /\ UNCHANGED <<lastSavedAt, lastError>>

\* root.unmount(): the effect cleanup runs and the instance is gone
Teardown ==
    /\ workspaceId' = ""
    /\ onSave' = NoSave
    /\ nodes' = << >>
    /\ edges' = << >>
    /\ SetHook([FreshHook EXCEPT !.timer = effectCleanup(Hook).timer])

\* the onSave prop called with graph: the wrapper of index.tsx records the
\* graph and passes it on to the host's callback, if the host gave one
\* variant: the callback gets the snapshot of index.tsx, not the editor's graph
CallOnSave_Stale(graph) ==
    IF onSave.kind = "wrapper"
    THEN /\ UNCHANGED currentGraph
         /\ notified' = IF handles[onSave.handle].onSave
                        THEN <<[handle |-> onSave.handle, graph |-> currentGraph]>>
                        ELSE << >>
    ELSE /\ UNCHANGED currentGraph
         /\ notified' = IF onSave.kind = "host"
                        THEN <<[handle |-> 0, graph |-> currentGraph]>> ELSE << >>

\* variant: the wrapper passes the graph on without recording it
CallOnSave_NoRecord(graph) ==
    /\ UNCHANGED currentGraph
    /\ notified' = IF onSave.kind = "wrapper"
                   THEN IF handles[onSave.handle].onSave
                        THEN <<[handle |-> onSave.handle, graph |-> graph]>>
                        ELSE << >>
                   ELSE IF onSave.kind = "host"
                        THEN <<[handle |-> 0, graph |-> graph]>> ELSE << >>

CallOnSave(graph) ==
    IF onSave.kind = "wrapper"
    THEN /\ currentGraph' = graph
         /\ notified' = IF handles[onSave.handle].onSave
                        THEN <<[handle |-> onSave.handle, graph |-> graph]>>
                        ELSE << >>
    ELSE /\ UNCHANGED currentGraph
         /\ notified' = IF onSave.kind = "host"
                        THEN <<[handle |-> 0, graph |-> graph]>> ELSE << >>

\* variant: a change inside the editor is written to the snapshot of index.tsx
GraphChange_Sync(op, ns, es) ==
    /\ appMounted
    /\ ~TimerDue
    /\ nodes' = ns
    /\ edges' = es
    /\ currentGraph' = [nodes |-> ns, edges |-> es]
    /\ SetHook(useAutoSaveEffect(Hook, workspaceId, ns, es))
    /\ Did([op |-> op], << >>, << >>, "")
    /\ sinceChange' = 0
    /\ burst' = IF timer.armed THEN Min(burst + 1, MaxBurst) ELSE 1
    /\ fired' = 0
    /\ clicked' = FALSE
    /\ UNCHANGED <<currentRoot, handles, mountedRoots, hostRoot, workspaceId, onSave,
                   storeWorkspaceId, lastSavedAt, lastError, inflight>>
    /\ UNCHANGED mapper

\* a change of nodes or edges by the rendering engine or the Clear button:
\* the component renders again and the hook's effect runs
GraphChange(op, ns, es) ==
    /\ appMounted
    /\ ~TimerDue
    /\ nodes' = ns
    /\ edges' = es
    /\ SetHook(useAutoSaveEffect(Hook, workspaceId, ns, es))
    /\ lastOp' = [op |-> op]
    /\ sent' = << >>
    /\ notified' = << >>
    /\ thrown' = ""
    /\ sinceChange' = 0
    /\ burst' = IF timer.armed THEN Min(burst + 1, MaxBurst) ELSE 1
    /\ fired' = 0
    /\ clicked' = FALSE
    /\ UNCHANGED <<indexVars, hostRoot, workspaceId, onSave, storeWorkspaceId,
                   lastSavedAt, lastError, inflight>>
    /\ UNCHANGED mapper

\* onNodesChange: a node is dropped on the canvas
AddNode(n) ==
    /\ n.id \notin SeqIds(nodes)
    /\ GraphChange("edit", Append(nodes, n), edges)

\* onNodesChange and onEdgesChange: a node is deleted with the edges at it
RemoveNode(id) ==
    /\ id \in SeqIds(nodes)
    /\ GraphChange("edit",
                   SelectSeq(nodes, LAMBDA n : n.id # id),
                   SelectSeq(edges, LAMBDA e : e.source # id /\ e.target # id))

\* addEdge(connection, eds) of the rendering engine
addEdge(c, eds) ==
    IF \E i \in 1..Len(eds) : eds[i].source = c.source /\ eds[i].target = c.target
    THEN eds
    ELSE Append(eds, [id |-> "xy-edge__" \o c.source \o "-" \o c.target,
                      source |-> c.source, target |-> c.target])

onConnect(c) ==
    /\ {c.source, c.target} \subseteq SeqIds(nodes)
    /\ addEdge(c, edges) # edges
    /\ GraphChange("edit", nodes, addEdge(c, edges))

\* the Clear button
handleClear == GraphChange("clearClick", << >>, << >>)

\* the Save button
handleSave ==
    /\ appMounted
    /\ ~TimerDue
    /\ IF workspaceId # ""
       THEN /\ BagCardinality(inflight) < MaxInFlight
            /\ doSave(saveNow(Hook), workspaceId, nodes, edges, "saveNow")
            /\ sent' = doSaveCalls(workspaceId, nodes, edges)
       ELSE /\ UNCHANGED <<hookVars, saveStatus, inflight>>
            /\ sent' = << >>
    /\ CallOnSave([nodes |-> nodes, edges |-> edges])
    /\ lastOp' = [op |-> "saveClick", pending |-> timer.armed]
    /\ thrown' = ""
    /\ clicked' = TRUE
    /\ sinceChange' = IF timer.armed /\ ~saveNow(Hook).timer.armed /\ workspaceId # ""
                      THEN 0 ELSE sinceChange
    /\ UNCHANGED <<currentRoot, handles, mountedRoots, hostRoot, appVars,
                   storeWorkspaceId, lastSavedAt, lastError,
                   burst, fired>>
    /\ UNCHANGED mapper

(***************************************************************************)
(* index.tsx                                                               *)
(***************************************************************************)
\* the workspaceId prop of the <App> that mountCanvas renders, given
\* options.workspaceId: the JSX passes none
mountedWorkspaceId(optionsWorkspaceId) == ""

\* the onSave prop the handle h renders <App> with
wrapper(h) == [kind |-> "wrapper", handle |-> h]

\* currentRoot.render(<App .../>) on a root that already shows <App>: the
\* props change, useNodesState/useEdgesState keep their state, and no
\* dependency of the hook's effect changed
RenderAgain(initialGraph, cb) ==
    /\ onSave' = cb
    /\ UNCHANGED <<workspaceId, nodes, edges, hookVars>>

\* variant: the container is not checked
containerFound_Any(containerId) == TRUE

\* document.getElementById(containerId) finds an element
containerFound(containerId) == containerId \in Containers

\* variant: the root mounted before is left mounted
unmountExisting_Skip(roots, root) == roots

\* if (currentRoot) currentRoot.unmount(): the roots left mounted
unmountExisting(roots, root) == roots \ {root}

mountCanvas(containerId, initialGraph, hostOnSave, optionsWorkspaceId) ==
    /\ ~TimerDue
    /\ storeWorkspaceId = ""
    /\ lastOp' = [op |-> "mountCanvas", containerId |-> containerId]
                  @@ (IF containerFound(containerId)
                      THEN [initialGraph |-> initialGraph, replaced |-> currentRoot]
                      ELSE << >>)
    /\ sent' = << >>
    /\ notified' = << >>
    /\ IF ~containerFound(containerId)
       THEN /\ thrown' = "ContainerNotFound"
            /\ UNCHANGED <<indexVars, hostRoot, appVars, hookVars, storeVars,
                           inflight, obsVars>>
       ELSE /\ ~hostRoot
            /\ Len(handles) < MaxMounts
            /\ LET h == Len(handles) + 1
                   graph == IF initialGraph = Undefined THEN EmptyGraph
                            ELSE initialGraph
               IN  /\ mountedRoots' = unmountExisting(mountedRoots, currentRoot) \cup {h}
                   /\ currentGraph' = graph
                   /\ currentRoot' = h
                   /\ handles' = Append(handles, [onSave |-> hostOnSave])
                   /\ \E rnd \in RandomChoices(graph) :
                        RenderFresh(mountedWorkspaceId(optionsWorkspaceId),
                                    graph, wrapper(h), rnd)
            /\ thrown' = ""
            /\ ResetObs
            /\ UNCHANGED <<hostRoot, inflight>>
    /\ UNCHANGED mapper

\* variant: the snapshot is not updated
SetSnapshot_Skip(graph) == UNCHANGED currentGraph

\* currentGraph = graph
SetSnapshot(graph) == currentGraph' = graph

\* handle.setGraph(graph), for the handle h of any earlier mountCanvas
setGraph(h, graph) ==
    /\ ~TimerDue
    /\ SetSnapshot(graph)
    /\ IF currentRoot # 0 THEN RenderAgain(graph, wrapper(h))
       ELSE UNCHANGED <<appVars, hookVars>>
    /\ Did([op |-> "setGraph", graph |-> graph, handle |-> h], << >>, << >>, "")
    /\ UNCHANGED <<currentRoot, handles, mountedRoots, hostRoot, storeVars,
                   inflight, obsVars>>
    /\ UNCHANGED mapper

\* handle.clear()
clear(h) ==
    /\ ~TimerDue
    /\ SetSnapshot(EmptyGraph)
    /\ IF currentRoot # 0 THEN RenderAgain(EmptyGraph, wrapper(h))
       ELSE UNCHANGED <<appVars, hookVars>>
    /\ Did([op |-> "clear", handle |-> h], << >>, << >>, "")
    /\ UNCHANGED <<currentRoot, handles, mountedRoots, hostRoot, storeVars,
                   inflight, obsVars>>
    /\ UNCHANGED mapper

\* variant: unmount does not look at currentRoot
rootSet_Any(root) == TRUE

\* if (currentRoot)
rootSet(root) == root # 0

\* handle.unmount(); a method call on null throws a TypeError
unmount(h) ==
    /\ ~TimerDue
    /\ IF rootSet(currentRoot)
       THEN IF currentRoot # 0
            THEN /\ Teardown
                 /\ mountedRoots' = mountedRoots \ {currentRoot}
                 /\ currentRoot' = 0
                 /\ ResetObs
                 /\ thrown' = ""
            ELSE /\ thrown' = "TypeError"
                 /\ UNCHANGED <<currentRoot, mountedRoots, appVars, hookVars,
                                saveStatus, obsVars>>
       ELSE /\ thrown' = ""
            /\ UNCHANGED <<currentRoot, mountedRoots, appVars, hookVars, saveStatus,
                           obsVars>>
    /\ lastOp' = [op |-> "unmount", wasMounted |-> currentRoot # 0, handle |-> h]
    /\ sent' = << >>
    /\ notified' = << >>
    /\ UNCHANGED <<currentGraph, handles, hostRoot, storeWorkspaceId,
                   lastSavedAt, lastError, inflight>>
    /\ UNCHANGED mapper

(***************************************************************************)
(* <App> rendered by the host page into a root of its own, which is how a  *)
(* session gets a workspaceId.  The model holds one editor at a time, and  *)
(* a page either mounts through mountCanvas or renders bound editors of    *)
(* its own: mountCanvas is not followed while the store names a workspace, *)
(* and the host renders an editor only when no response is outstanding.    *)
(***************************************************************************)
RenderApp(wid, initialGraph, hostOnSave) ==
    /\ ~appMounted
    /\ handles = << >>
    /\ inflight = EmptyBag
    /\ ~TimerDue
    /\ hostRoot' = TRUE
    /\ \E rnd \in RandomChoices(initialGraph) :
         RenderFresh(wid, initialGraph,
                     IF hostOnSave THEN [kind |-> "host"] ELSE NoSave, rnd)
    /\ Did([op |-> "renderApp"], << >>, << >>, "")
    /\ ResetObs
    /\ UNCHANGED <<indexVars, inflight>>
    /\ UNCHANGED mapper

UnmountApp ==
    /\ hostRoot
    /\ ~TimerDue
    /\ hostRoot' = FALSE
    /\ Teardown
    /\ Did([op |-> "unmountApp", pending |-> timer.armed], << >>, << >>, "")
    /\ ResetObs
    /\ UNCHANGED <<indexVars, storeWorkspaceId, lastSavedAt, lastError, inflight>>
    /\ UNCHANGED mapper

(***************************************************************************)
(* The event loop: time, the timeout, the responses of the transport.      *)
(***************************************************************************)
Tick ==
    /\ timer.armed
    /\ timer.left > 0
    /\ timer' = [timer EXCEPT !.left = @ - Min(Quantum, @)]
    /\ sinceChange' = Min(sinceChange + Quantum, debounceMs)
    /\ Did([op |-> "tick"], << >>, << >>, "")
    /\ UNCHANGED <<indexVars, hostRoot, appVars, timerRef, isFirstRender,
                   storeVars, inflight, burst, fired, clicked>>
    /\ UNCHANGED mapper

\* the callback given to setTimeout: doSave(nodes, edges) of the render
\* that armed it
TimerFire ==
    /\ TimerDue
    /\ BagCardinality(inflight) < MaxInFlight
    /\ doSave([Hook EXCEPT !.timer = NoTimer],
              timer.workspaceId, timer.nodes, timer.edges, "timer")
    /\ Did([op |-> "timerFire"],
           doSaveCalls(timer.workspaceId, timer.nodes, timer.edges), << >>, "")
    /\ fired' = Min(fired + 1, 2)
    /\ UNCHANGED <<indexVars, hostRoot, appVars,
                   storeWorkspaceId, lastSavedAt, lastError,
                   sinceChange, burst, clicked>>
    /\ UNCHANGED mapper

\* variant: a call that failed is sent again
Complete_Retry(c, result) ==
    /\ BagIn(c, inflight)
    /\ inflight' = IF result.ok THEN inflight (-) SetToBag({c}) ELSE inflight
    /\ IF result.ok THEN markSaved ELSE markError(result.error)
    /\ Did([op |-> "complete", result |-> result, by |-> c.by,
            current |-> c.payload = toBackendFormat(nodes, edges)],
           IF result.ok THEN << >> ELSE <<c.payload>>, << >>, "")
    /\ UNCHANGED <<indexVars, hostRoot, appVars, hookVars, storeWorkspaceId, obsVars>>
    /\ UNCHANGED mapper

\* saveWorkspace resolves for the call c: doSave goes on after its await
Complete(c, result) ==
    /\ BagIn(c, inflight)
    /\ inflight' = inflight (-) SetToBag({c})
    /\ IF result.ok THEN markSaved ELSE markError(result.error)
    /\ Did([op |-> "complete", result |-> result, by |-> c.by,
            current |-> c.payload = toBackendFormat(nodes, edges)],
           << >>, << >>, "")
    /\ UNCHANGED <<indexVars, hostRoot, appVars, hookVars, storeWorkspaceId, obsVars>>
    /\ UNCHANGED mapper

Next ==
    \/ \E c \in ContainerIds, g \in HostGraphs \cup {Undefined},
          cb \in BOOLEAN, w \in WorkspaceIds : mountCanvas(c, g, cb, w)
    \/ \E h \in 1..Len(handles), g \in HostGraphs : setGraph(h, g)
    \/ \E h \in 1..Len(handles) : clear(h)
    \/ \E h \in 1..Len(handles) : unmount(h)
    \/ \E w \in WorkspaceIds, g \in HostGraphs \cup {Undefined}, cb \in BOOLEAN :
          RenderApp(w, g, cb)
    \/ UnmountApp
    \/ \E n \in NodePool : AddNode(n)
    \/ \E id \in SeqIds(nodes) : RemoveNode(id)
    \/ \E c \in Connections : onConnect(c)
    \/ handleClear
    \/ handleSave
    \/ Tick
    \/ TimerFire
    \/ \E c \in BagToSet(inflight), r \in ApiResults : Complete(c, r)

Spec == Init /\ [][Next]_vars

\* the results of a transport that succeeds or fails to connect
HostedResults == {q \in ApiResults : q.ok \/ q.status = 0}

\* the steps of a page that renders bound editors of its own, without a
\* save callback, and does not call mountCanvas; its calls succeed or fail
\* in the transport
NextHosted ==
    \/ \E w \in WorkspaceIds \ {""}, g \in {Undefined, WorkspaceB} :
          RenderApp(w, g, FALSE)
    \/ UnmountApp
    \/ \E n \in NodePool : AddNode(n)
    \/ \E id \in SeqIds(nodes) : RemoveNode(id)
    \/ \E c \in Connections : onConnect(c)
    \/ handleClear
    \/ handleSave
    \/ Tick
    \/ TimerFire
    \/ \E c \in BagToSet(inflight), r \in HostedResults : Complete(c, r)

\* such a page with the event loop running: time passes, a timeout that is
\* due runs its callback, and the transport answers every call
LiveSpec ==
    /\ Init
    /\ [][NextHosted]_vars
    /\ WF_vars(Tick)
    /\ WF_vars(TimerFire)
    /\ WF_vars(\E c \in BagToSet(inflight), r \in HostedResults : Complete(c, r))

(***************************************************************************)
(* The format mapper on its own: toBackendFormat applied to an editor      *)
(* graph, fromBackendFormat applied to a persisted workspace or to the     *)
(* payload toBackendFormat returned.                                       *)
(***************************************************************************)
SeqsUpTo(S, n) == UNION {[1..k -> S] : k \in 0..n}

\* editor nodes: typed, untyped, and one that was never given a position
\* (data is a required property of the engine's Node)
MapperNodes ==
    {[id |-> "a", type |-> "basic", position |-> [x |-> 10, y |-> 20],
      data |-> [label |-> "A"]],
     [id |-> "b", position |-> [x |-> 0, y |-> 0], data |-> << >>],
     [id |-> "b", type |-> "basic", data |-> [label |-> "B"]]}

\* editor edges: typed, untyped, and one whose target is no node
MapperEdges ==
    {[id |-> "e1", source |-> "a", target |-> "b", type |-> "default"],
     [id |-> "e2", source |-> "b", target |-> "a"],
     [id |-> "e3", source |-> "a", target |-> "z"]}

MapperGraphs ==
    {[nodes |-> ns, edges |-> es] :
        ns \in SeqsUpTo(MapperNodes, MaxMapLen), es \in SeqsUpTo(MapperEdges, MaxMapLen)}

\* persisted nodes: complete, without position, without content and position
PersistedNodes ==
    {[node_id |-> "a", type |-> "concept", content |-> [label |-> "A"],
      position |-> [x |-> 10, y |-> 20]],
     [node_id |-> "b", type |-> "note", content |-> [label |-> "B"]],
     [node_id |-> "c", type |-> "concept"]}

PersistedEdges ==
    {[edge_id |-> "e1", source_node_id |-> "a", target_node_id |-> "b",
      type |-> "similar_to"]}

\* persisted workspaces, the nodes or the edges collection possibly missing
MapperWorkspaces ==
    {[workspace_id |-> "w1", name |-> "ws"] @@ ns @@ es :
        ns \in {<< >>} \cup {[nodes |-> q] : q \in SeqsUpTo(PersistedNodes, MaxMapLen)},
        es \in {<< >>} \cup {[edges |-> q] : q \in SeqsUpTo(PersistedEdges, MaxMapLen)}}

InitMapper ==
    /\ InitProgram
    /\ mapper \in {[op |-> "input", graph |-> g] : g \in MapperGraphs}
                  \cup {[op |-> "input", workspace |-> w] : w \in MapperWorkspaces}

\* toBackendFormat(graph.nodes, graph.edges)
MapToBackend ==
    /\ mapper.op = "input"
    /\ Has(mapper, "graph")
    /\ mapper' = [op |-> "toBackendFormat", graph |-> mapper.graph,
                  payload |-> toBackendFormat(mapper.graph.nodes, mapper.graph.edges)]
    /\ UNCHANGED programVars

\* fromBackendFormat(workspace), for a persisted workspace or for the
\* payload toBackendFormat returned
MapFromBackend ==
    /\ \/ mapper.op = "input" /\ Has(mapper, "workspace")
       \/ mapper.op = "toBackendFormat"
    /\ LET workspace == IF mapper.op = "input" THEN mapper.workspace
                        ELSE mapper.payload
       IN  \E rnd \in RandomPositions(Len(OrEmpty(workspace, "nodes"))) :
             mapper' = [op |-> "fromBackendFormat", workspace |-> workspace,
                        result |-> fromBackendFormat(workspace, rnd)]
                       @@ Prop("graph", mapper, "graph")
    /\ UNCHANGED programVars

NextMapper == MapToBackend \/ MapFromBackend

SpecMapper == InitMapper /\ [][NextMapper]_vars

(***************************************************************************)
(* Properties.                                                             *)
(***************************************************************************)
\* the editor now mounted was given a workspace id
Bound == appMounted /\ workspaceId # ""

\* the host gave a save callback to the editor now mounted
HostCallback ==
    \/ onSave.kind = "host"
    \/ onSave.kind = "wrapper" /\ handles[onSave.handle].onSave

\* the graph the editor holds
EditorGraph == [nodes |-> nodes, edges |-> edges]

\* C1: a bound session has at most one transport call in flight at any
\* time; neither a Save click nor the expiry of the debounce timer starts a
\* second call while an earlier one has not returned.
C1_AtMostOneInFlight == Bound => BagCardinality(inflight) <= 1

\* C2: debounce.  A burst of changes, each within the quiet period of the
\* one before, is followed by exactly one persist attempt; the attempt
\* starts exactly debounceMs after the last change of the burst and its
\* payload is the mapping of the graph as of that change.
C2_Debounce ==
    /\ fired <= 1
    /\ lastOp.op = "timerFire" =>
          /\ sinceChange = debounceMs
          /\ fired = 1
          /\ sent = <<toBackendFormat(nodes, edges)>>
    /\ (Bound /\ burst > 0 /\ ~clicked /\ ~timer.armed) => fired = 1
    /\ (Bound /\ timer.armed) => (fired = 0 /\ timer.left = debounceMs - sinceChange)

\* a burst of three changes has been followed by its one attempt
C2_Witness ==
    /\ lastOp.op = "timerFire"
    /\ burst = 3
    /\ sinceChange = debounceMs
    /\ Len(sent) = 1

\* C3: a session without a workspace id never calls the transport and
\* never changes the save status, whatever edits, Clear clicks and Save
\* clicks are made; every session created through mountCanvas is such a
\* session.
C3_UnboundInert ==
    /\ [](mountedRoots # {} => workspaceId = "")
    /\ [][(appMounted' /\ workspaceId' = ""
            /\ lastOp'.op \in {"edit", "clearClick", "saveClick", "mountCanvas",
                               "renderApp", "setGraph", "clear"})
          => (/\ sent' = << >>
              /\ inflight' = inflight
              /\ saveStatus' = saveStatus
              /\ ~timer'.armed)]_vars

\* an unbound session created through mountCanvas after edits and a Save click
C3_Witness ==
    /\ mountedRoots # {}
    /\ lastOp.op = "saveClick"
    /\ nodes # defaultNodes
    /\ currentGraph = EditorGraph

\* C4: in a bound session an edit made in saved or in error moves the
\* status to unsaved; the expiry of the debounce timer moves it to saving;
\* the response of the call moves it to saved when it succeeded and to
\* error when it failed.
C4_StatusSequences ==
    [][/\ (Bound /\ lastOp'.op \in {"edit", "clearClick"}
             /\ saveStatus \in {"saved", "error"}) => saveStatus' = "unsaved"
       /\ (lastOp'.op = "timerFire") => saveStatus' = "saving"
       /\ (lastOp'.op = "complete") =>
             saveStatus' = IF lastOp'.result.ok THEN "saved" ELSE "error"]_vars

\* saved, edit, unsaved, timer, failure, error, edit, unsaved
C4_Witness ==
    /\ Bound
    /\ lastOp.op = "edit"
    /\ saveStatus = "unsaved"
    /\ lastError # "null"
    /\ inflight = EmptyBag

\* C5: mountCanvas with a containerId that matches no element throws
\* ContainerNotFound and leaves the mounted session as it was: the root is
\* not torn down and getGraph returns what it returned before.
C5_MissingContainer ==
    [][(lastOp'.op = "mountCanvas" /\ lastOp'.containerId \notin Containers)
       => (/\ thrown' = "ContainerNotFound"
           /\ getGraph' = getGraph
           /\ UNCHANGED <<currentRoot, mountedRoots, handles, appVars, hookVars>>)]_vars

\* the failed call found a session mounted
C5_Witness ==
    /\ thrown = "ContainerNotFound"
    /\ mountedRoots # {}
    /\ currentGraph # EmptyGraph

\* C6: after setGraph(g) on a mounted session the editor holds g and
\* getGraph returns g.
C6_SetGraphReplaces ==
    (lastOp.op = "setGraph" /\ mountedRoots # {} /\ ~Has(lastOp.graph, "workspace_id"))
        => (getGraph = lastOp.graph /\ EditorGraph = lastOp.graph)

\* C7: after clear() on a mounted session the editor holds no nodes and no
\* edges and getGraph returns the empty graph.
C7_ClearEmpties ==
    (lastOp.op = "clear" /\ mountedRoots # {})
        => (getGraph = EmptyGraph /\ EditorGraph = EmptyGraph)

\* C8: setGraph and clear start no transport call and arm no timer, and
\* getGraph returns the graph they were given (the empty graph for clear).
C8_SetGraphNoPersist ==
    [][(lastOp'.op \in {"setGraph", "clear"})
       => (/\ sent' = << >>
           /\ inflight' = inflight
           /\ timer' = timer
           /\ ~timer'.armed
           /\ getGraph' = IF lastOp'.op = "setGraph" THEN lastOp'.graph
                          ELSE EmptyGraph)]_vars

\* setGraph({nodes: [], edges: []}) on a mounted session holding a graph
C8_Witness ==
    /\ lastOp.op = "setGraph"
    /\ lastOp.graph = EmptyGraph
    /\ mountedRoots # {}
    /\ getGraph = EmptyGraph
    /\ inflight = EmptyBag

\* C9: after mountCanvas without initialGraph the editor holds exactly the
\* starter node and no edges, and so does the graph getGraph returns.
C9_MountDefault ==
    (lastOp.op = "mountCanvas" /\ thrown = "" /\ lastOp.initialGraph = Undefined)
        => (/\ EditorGraph = [nodes |-> defaultNodes, edges |-> << >>]
            /\ getGraph = [nodes |-> defaultNodes, edges |-> << >>])

C12_SingleRoot ==
    /\ Cardinality(mountedRoots) <= 1
    /\ mountedRoots = IF currentRoot = 0 THEN {} ELSE {currentRoot}
    /\ (lastOp.op = "mountCanvas" /\ thrown = "") =>
          (currentRoot # 0 /\ lastOp.replaced \notin mountedRoots)
    /\ lastOp.op = "unmount" => mountedRoots = {}

\* mountCanvas was called while the root of an earlier call was mounted
C12_Witness ==
    /\ lastOp.op = "mountCanvas"
    /\ thrown = ""
    /\ lastOp.replaced = 1
    /\ mountedRoots = {2}

\* C13: unmount() with nothing mounted throws nothing and changes neither
\* what is mounted nor the graph getGraph returns.
C13_UnmountIdempotent ==
    [][(lastOp'.op = "unmount" /\ ~lastOp'.wasMounted)
       => (/\ thrown' = ""
           /\ getGraph' = getGraph
           /\ UNCHANGED <<currentRoot, mountedRoots, hostRoot, appVars, hookVars>>)]_vars

\* unmount() called a second time in a row, a graph being held
C13_Witness ==
    /\ lastOp.op = "unmount"
    /\ ~lastOp.wasMounted
    /\ thrown = ""
    /\ mountedRoots = {}
    /\ getGraph # EmptyGraph

\* C14: a Save click in a bound session with a debounce timer pending
\* cancels the timer and starts the persist attempt at once with the graph
\* the editor holds: one transport call; and no timer expires after a Save
\* click unless a graph change came in between.
C14_SaveNowCancelsTimer ==
    /\ [][(lastOp'.op = "saveClick" /\ Bound /\ lastOp'.pending)
          => (/\ ~timer'.armed
              /\ ~timerRef'
              /\ sent' = <<toBackendFormat(nodes, edges)>>
              /\ inflight' = inflight (+) SetToBag({[workspaceId |-> workspaceId,
                                                     payload |-> sent'[1],
                                                     by |-> "saveNow"]})
              /\ saveStatus' = "saving")]_vars
    /\ [](clicked => ~timer.armed)
    /\ [](lastOp.op = "timerFire" => ~clicked)

\* Save was clicked within the quiet period of an edit
C14_Witness ==
    /\ lastOp.op = "saveClick"
    /\ lastOp.pending
    /\ Bound
    /\ burst = 1
    /\ fired = 0
    /\ ~timer.armed
    /\ Len(sent) = 1

\* C15: a persist attempt that fails, by a transport failure (status 0) or
\* by a rejection of the backend, moves the status to error and stores the
\* message in lastError; neither the start of an attempt nor its response
\* changes the editor's nodes and edges.
C15_FailureToError ==
    [][/\ (lastOp'.op = "complete" /\ ~lastOp'.result.ok)
             => (/\ saveStatus' = "error"
                 /\ lastError' = lastOp'.result.error
                 /\ lastSavedAt' = lastSavedAt)
       /\ (lastOp'.op \in {"complete", "timerFire", "saveClick"})
             => (nodes' = nodes /\ edges' = edges)]_vars

\* the call of a bound session holding two nodes failed in the transport
C15_Witness ==
    /\ lastOp.op = "complete"
    /\ ~lastOp.result.ok
    /\ lastOp.result.status = 0
    /\ saveStatus = "error"
    /\ lastError = "Network error"
    /\ Bound
    /\ Len(nodes) = 2

\* C16: no automatic retry.  A transport call is started only by the
\* expiry of a debounce timer or by a Save click, a timer is armed only by
\* a graph change, and the response of a call arms no timer and starts no
\* call; once the status is error with no timer pending and no call in
\* flight, it stays error until a graph change or a Save click.
C16_NoRetry ==
    [][/\ (sent' # << >> \/ ~(inflight' \sqsubseteq inflight))
             => lastOp'.op \in {"timerFire", "saveClick"}
       /\ (timer'.armed /\ (~timer.armed \/ timer'.left > timer.left))
             => lastOp'.op \in {"edit", "clearClick"}
       /\ (lastOp'.op = "complete")
             => (/\ sent' = << >>
                 /\ timer' = timer
                 /\ BagCardinality(inflight') = BagCardinality(inflight) - 1)
       /\ (saveStatus = "error" /\ ~timer.armed /\ inflight = EmptyBag
             /\ saveStatus' # "error")
             => lastOp'.op \in {"edit", "clearClick", "saveClick"}]_vars

\* after a failure the next attempt is the one of the timer that a later
\* edit armed
C16_Witness ==
    /\ lastOp.op = "timerFire"
    /\ lastError # "null"
    /\ saveStatus = "saving"
    /\ BagCardinality(inflight) = 1
    /\ burst = 1

\* C20: a persist attempt begins, and the status becomes saving, only when
\* the status is unsaved or error: never when it is saved or saving.
C20_SavingOnlyFromUnsavedOrError ==
    [][(lastOp'.op \in {"timerFire", "saveClick"} /\ sent' # << >>)
       => (saveStatus' = "saving" /\ saveStatus \in {"unsaved", "error"})]_vars

\* C17: the payload toBackendFormat returns always holds a nodes sequence
\* and an edges sequence, with one entry per node and per edge given, in
\* the order given; for no nodes and no edges it is {nodes: [], edges: []}.
C17_PayloadComplete ==
    mapper.op = "toBackendFormat" =>
        LET g == mapper.graph
            p == mapper.payload
        IN  /\ DOMAIN p = {"nodes", "edges"}
            /\ DOMAIN p.nodes = 1..Len(g.nodes)
            /\ DOMAIN p.edges = 1..Len(g.edges)
            /\ \A i \in 1..Len(g.nodes) : p.nodes[i].node_id = g.nodes[i].id
            /\ \A i \in 1..Len(g.edges) :
                  /\ p.edges[i].edge_id = g.edges[i].id
                  /\ p.edges[i].source_node_id = g.edges[i].source
                  /\ p.edges[i].target_node_id = g.edges[i].target
            /\ (g.nodes = << >> /\ g.edges = << >>)
                  => p = [nodes |-> << >>, edges |-> << >>]

\* toBackendFormat([], []) has returned
C17_Witness ==
    /\ mapper.op = "toBackendFormat"
    /\ mapper.graph = EmptyGraph
    /\ mapper.payload = [nodes |-> << >>, edges |-> << >>]

\* ids are unique, every edge joins two nodes of the graph, every node has
\* a position
RoundTripInput(g) ==
    /\ \A i, j \in 1..Len(g.nodes) : g.nodes[i].id = g.nodes[j].id => i = j
    /\ \A i, j \in 1..Len(g.edges) : g.edges[i].id = g.edges[j].id => i = j
    /\ \A i \in 1..Len(g.edges) :
          {g.edges[i].source, g.edges[i].target} \subseteq SeqIds(g.nodes)
    /\ \A i \in 1..Len(g.nodes) : Has(g.nodes[i], "position")

\* C18: round trip.  For a graph with unique ids, no dangling edge and a
\* position on every node, fromBackendFormat(toBackendFormat(nodes, edges))
\* has the same node ids, positions and data and the same edge ids,
\* sources and targets, in the same order.
C18_RoundTrip ==
    (mapper.op = "fromBackendFormat" /\ Has(mapper, "graph")
        /\ RoundTripInput(mapper.graph)) =>
        LET g == mapper.graph
            r == mapper.result
        IN  /\ Len(r.nodes) = Len(g.nodes)
            /\ Len(r.edges) = Len(g.edges)
            /\ \A i \in 1..Len(g.nodes) :
                  /\ r.nodes[i].id = g.nodes[i].id
                  /\ r.nodes[i].position = g.nodes[i].position
                  /\ r.nodes[i].data = g.nodes[i].data
            /\ \A i \in 1..Len(g.edges) :
                  /\ r.edges[i].id = g.edges[i].id
                  /\ r.edges[i].source = g.edges[i].source
                  /\ r.edges[i].target = g.edges[i].target

\* the round trip of two nodes and two edges, one node and one edge
\* untyped, came back differing in the type tags only
C18_Witness ==
    /\ mapper.op = "fromBackendFormat"
    /\ Has(mapper, "graph")
    /\ RoundTripInput(mapper.graph)
    /\ Len(mapper.graph.nodes) = 2
    /\ Len(mapper.graph.edges) = 2
    /\ mapper.result # mapper.graph
    /\ mapper.result.nodes[2].type = "basic"
    /\ ~Has(mapper.graph.nodes[2], "type")

\* C19: fromBackendFormat of a persisted workspace with optional fields
\* missing returns a graph: a missing nodes or edges collection gives an
\* empty sequence, a missing content an empty mapping, a missing position
\* a position with both coordinates in [0, 500]; every node has type
\* 'basic' and every edge type 'default'.
C19_FromBackendDefaults ==
    (mapper.op = "fromBackendFormat" /\ ~Has(mapper, "graph")) =>
        LET w == mapper.workspace
            r == mapper.result
        IN  /\ DOMAIN r = {"nodes", "edges"}
            /\ ~Has(w, "nodes") => r.nodes = << >>
            /\ ~Has(w, "edges") => r.edges = << >>
            /\ Has(w, "nodes") => DOMAIN r.nodes = DOMAIN w.nodes
            /\ Has(w, "edges") => DOMAIN r.edges = DOMAIN w.edges
            /\ \A i \in DOMAIN r.nodes :
                  /\ r.nodes[i].id = w.nodes[i].node_id
                  /\ r.nodes[i].type = "basic"
                  /\ r.nodes[i].data = IF Has(w.nodes[i], "content")
                                       THEN w.nodes[i].content ELSE << >>
                  /\ IF Has(w.nodes[i], "position")
                     THEN r.nodes[i].position = w.nodes[i].position
                     ELSE /\ r.nodes[i].position.x \in 0..RandomSpan
                          /\ r.nodes[i].position.y \in 0..RandomSpan
            /\ \A i \in DOMAIN r.edges : r.edges[i].type = "default"

\* a workspace without an edges collection whose node has neither content
\* nor position was converted
C19_Witness ==
    /\ mapper.op = "fromBackendFormat"
    /\ ~Has(mapper, "graph")
    /\ ~Has(mapper.workspace, "edges")
    /\ Has(mapper.workspace, "nodes")
    /\ Len(mapper.workspace.nodes) = 1
    /\ DOMAIN mapper.workspace.nodes[1] = {"node_id", "type"}
    /\ mapper.result.edges = << >>
    /\ mapper.result.nodes[1].data = << >>
    /\ mapper.result.nodes[1].position.x = RandomSpan - 1

\* C21: the result of a persist attempt is applied only in the status
\* saving: the status becomes saved from saving alone, on a success, which
\* sets lastSavedAt and clears lastError, and it never becomes saved or
\* error from saved, unsaved or error.
C21_ResultOnlyFromSaving ==
    [][(lastOp'.op = "complete")
       => (/\ saveStatus = "saving"
           /\ lastOp'.result.ok
                 => (/\ saveStatus' = "saved"
                     /\ lastSavedAt' = "Date"
                     /\ lastError' = "null"))]_vars

\* C22: a graph change made in a bound session while the status is saving
\* leaves the status saving, cancels the pending timeout and arms one for
\* the full quiet period with the graph after the change.
C22_ChangeWhileSaving ==
    [][(Bound /\ lastOp'.op \in {"edit", "clearClick"} /\ saveStatus = "saving")
       => (/\ saveStatus' = "saving"
           /\ timerRef'
           /\ timer'.armed
           /\ timer'.left = debounceMs
           /\ timer'.nodes = nodes'
           /\ timer'.edges = edges'
           /\ inflight' = inflight)]_vars

\* a second edit, made with a timeout pending and a call in flight, left
\* the status saving and the timeout armed anew
C22_Witness ==
    /\ Bound
    /\ lastOp.op = "edit"
    /\ burst = 2
    /\ saveStatus = "saving"
    /\ inflight # EmptyBag
    /\ timer.armed
    /\ timer.left = debounceMs

\* C24: the first run of the change effect, at the mount of a bound
\* session, leaves the status as it is, arms no timeout and calls no
\* transport; while no graph change and no Save click has been made since
\* the mount, no timeout is pending, no call is in flight, and no step
\* changes the status or calls the transport.
C24_InitialLoadInert ==
    /\ [][(lastOp'.op = "renderApp" /\ workspaceId' # "")
          => (/\ saveStatus' = saveStatus
              /\ ~isFirstRender'
              /\ ~timerRef'
              /\ ~timer'.armed
              /\ sent' = << >>
              /\ inflight' = inflight)]_vars
    /\ []((Bound /\ burst = 0 /\ ~clicked)
            => (~timer.armed /\ inflight = EmptyBag /\ saveStatus # "saving"))
    /\ [][(Bound /\ burst = 0 /\ ~clicked /\ Bound' /\ burst' = 0 /\ ~clicked')
          => (saveStatus' = saveStatus /\ sent' = << >>)]_vars

\* a bound session was mounted on a persisted workspace, the status saved
C24_Witness ==
    /\ lastOp.op = "renderApp"
    /\ Bound
    /\ nodes = resolveInitialGraph(WorkspaceB, << >>).nodes
    /\ saveStatus = "saved"
    /\ lastSavedAt = "null"
    /\ ~isFirstRender
    /\ ~timer.armed
    /\ inflight = EmptyBag

C26_SavedMeansPersisted ==
    (/\ lastOp.op = "complete"
     /\ lastOp.result.ok
     /\ Bound
     /\ burst > 0
     /\ ~timer.armed
     /\ inflight = EmptyBag
     /\ saveStatus = "saved")
        => lastOp.current

\* C27: the unmount of the editor cancels the pending timeout: no timeout
\* is pending and no transport call is started while no editor is mounted;
\* the calls in flight stay in flight, and the response of one that comes
\* after the unmount sets the status like any other.
C27_UnmountCancelsTimer ==
    /\ [][(lastOp'.op \in {"unmount", "unmountApp"})
          => (~timer'.armed /\ sent' = << >> /\ inflight' = inflight)]_vars
    /\ [](~appMounted => ~timer.armed)
    /\ [][(~appMounted /\ ~appMounted')
          => (sent' = << >> /\ inflight' \sqsubseteq inflight)]_vars
    /\ [][(~appMounted' /\ lastOp'.op = "complete")
          => (/\ saveStatus' = IF lastOp'.result.ok THEN "saved" ELSE "error"
              /\ lastError' = IF lastOp'.result.ok THEN "null"
                               ELSE lastOp'.result.error)]_vars

\* the editor was unmounted with a timeout pending and a call in flight
C27_Witness ==
    /\ lastOp.op = "unmountApp"
    /\ lastOp.pending
    /\ ~appMounted
    /\ ~timer.armed
    /\ inflight # EmptyBag
    /\ saveStatus = "saving"

\* C28: setGraph, clear and unmount called on the handle of a mountCanvas
\* call that a later mountCanvas call has superseded leave the later
\* session alone: its root stays mounted and is not rendered again, and
\* the graph its handle's getGraph returns stays as it was.
C28_StaleHandleInert ==
    [][(/\ lastOp'.op \in {"setGraph", "clear", "unmount"}
        /\ currentRoot # 0
        /\ lastOp'.handle # currentRoot)
       => (/\ getGraph' = getGraph
           /\ UNCHANGED <<currentRoot, mountedRoots, appVars>>)]_vars

\* a persist attempt has just been started with the mapping of the graph
\* the editor holds
SentCurrent ==
    /\ lastOp.op \in {"timerFire", "saveClick"}
    /\ sent = <<toBackendFormat(nodes, edges)>>

\* C23: every payload is the mapping of the graph the editor holds when
\* the call is sent; and if graph changes stop, every change of a bound
\* session (it leaves a timeout pending), also one made with a call in
\* flight, is followed by a persist attempt with the mapping of the graph
\* then current, unless the session is unmounted first.
C23_ChangeEventuallySent ==
    /\ []((lastOp.op \in {"timerFire", "saveClick"} /\ sent # << >>) => SentCurrent)
    /\ (<>[](lastOp.op \notin {"edit", "clearClick"}))
          => []((Bound /\ timer.armed) => <>(SentCurrent \/ ~Bound))

\* the timeout of a change made with a call in flight has expired and
\* sent the graph of that change
C23_Witness ==
    /\ lastOp.op = "timerFire"
    /\ Bound
    /\ BagCardinality(inflight) = 2
    /\ sent = <<toBackendFormat(nodes, edges)>>
    /\ Len(nodes) = 2

====
